---- MODULE Spec2Model ----
(***************************************************************************)
(* Model of agent_packager: packager.create and the helpers of utils.py it *)
(* drives.  Python strings are sequences of one-character strings, so that *)
(* str.replace, str.lower, str.format and re.search are computed and not   *)
(* assumed.  The virtualenv, pip and tar are external: their outcomes are  *)
(* nondeterministic, their effects on the environment are kept in          *)
(* venv_isdir, installed and destination_tar.                              *)
(***************************************************************************)
EXTENDS Integers, Sequences, FiniteSets, TLC

\* ---------------------------------------------------------------- bounds
\* at most this many keys in the configuration's core_modules mapping
MaxCoreKeys == 2
\* at most this many entries in the configuration's additional_modules list
MaxAdditional == 2

\* ------------------------------------------------- constants of packager.py
EXTERNAL_MODULES ==
    << <<"c","e","l","e","r","y","=","=","3",".","0",".","2","4">> >>

cloudify_rest_client ==
    <<"c","l","o","u","d","i","f","y","_","r","e","s","t","_","c","l","i","e","n","t">>
cloudify_plugins_common ==
    <<"c","l","o","u","d","i","f","y","_","p","l","u","g","i","n","s","_","c","o","m","m","o","n">>
cloudify_script_plugin ==
    <<"c","l","o","u","d","i","f","y","_","s","c","r","i","p","t","_","p","l","u","g","i","n">>
cloudify_diamond_plugin ==
    <<"c","l","o","u","d","i","f","y","_","d","i","a","m","o","n","d","_","p","l","u","g","i","n">>

MODULES_LIST_reordered ==
    << cloudify_rest_client, cloudify_diamond_plugin,
       cloudify_script_plugin, cloudify_plugins_common >>

MODULES_LIST ==
    << cloudify_rest_client, cloudify_plugins_common,
       cloudify_script_plugin, cloudify_diamond_plugin >>

MANDATORY_MODULES ==
    << cloudify_plugins_common, cloudify_rest_client >>

DEFAULT_CLOUDIFY_AGENT_URL ==
    <<"h","t","t","p","s",":","/","/","g","i","t","h","u","b",".","c","o","m","/","n","i","r","0","s","/","c","l","o","u","d","i","f","y","-","a","g","e","n","t","/","a","r","c","h","i","v","e","/","{","0","}",".","t","a","r",".","g","z">>

\* the literal 'exclude' of the core_modules values
exclude ==
    <<"e","x","c","l","u","d","e">>

\* the literal 'cloudify-agent' that _validate checks for the agent module
cloudify_agent ==
    <<"c","l","o","u","d","i","f","y","-","a","g","e","n","t">>

\* ------------------------------------------------------- inputs of the runs
\* a core_modules key that is not in MODULES_LIST (commented out there)
cloudify_agent_installer_plugin ==
    <<"c","l","o","u","d","i","f","y","_","a","g","e","n","t","_","i","n","s","t","a","l","l","e","r","_","p","l","u","g","i","n">>
\* the location (a path) that a configuration gives for a core module
LocationOf(key) == << ".", "/" >> \o key
\* a location given as cloudify_agent_module
AgentLocation ==
    <<".","/","a","g","e","n","t">>
\* a cloudify_agent_version
AgentVersion ==
    <<"1",".","0">>
\* additional modules, given by index name
PyYAML ==
    <<"P","y","Y","A","M","L">>
pyyaml ==
    <<"p","y","y","a","m","l">>
\* project names that pip can install into the environment, as pip freeze
\* prints them
cloudify_diamond_plugin_dist ==
    <<"c","l","o","u","d","i","f","y","-","d","i","a","m","o","n","d","-","p","l","u","g","i","n">>
cloudify_diamond_plugin_tests_dist ==
    <<"c","l","o","u","d","i","f","y","-","d","i","a","m","o","n","d","-","p","l","u","g","i","n","-","t","e","s","t","s">>
PackageIndex ==
    { cloudify_agent, cloudify_diamond_plugin_dist,
      cloudify_diamond_plugin_tests_dist, PyYAML }

\* ------------------------------------------------------- Python primitives
\* Python's None (no Python string is equal to it)
None == << "None" >>

\* truth value of a string or None
Truthy(v) == v # None /\ v # << >>

EmptyDict == [k \in {} |-> None]

\* d.get(k)
DictGet(d, k) == IF k \in DOMAIN d THEN d[k] ELSE None

\* d.get(k, default)
DictGetDefault(d, k, default) == IF k \in DOMAIN d THEN d[k] ELSE default

\* the dict d after d.update(u)
DictUpdate(d, u) ==
    [k \in (DOMAIN d) \cup (DOMAIN u) |-> IF k \in DOMAIN u THEN u[k] ELSE d[k]]

UpperCase ==
    << "A","B","C","D","E","F","G","H","I","J","K","L","M",
       "N","O","P","Q","R","S","T","U","V","W","X","Y","Z" >>
LowerCase ==
    << "a","b","c","d","e","f","g","h","i","j","k","l","m",
       "n","o","p","q","r","s","t","u","v","w","x","y","z" >>

LowerChar(c) ==
    IF \E i \in 1..26 : UpperCase[i] = c
    THEN LowerCase[CHOOSE i \in 1..26 : UpperCase[i] = c]
    ELSE c

\* s.lower()
str_lower(s) == [i \in 1..Len(s) |-> LowerChar(s[i])]

\* s.replace(a, b) for one-character a and b
str_replace(s, a, b) == [i \in 1..Len(s) |-> IF s[i] = a THEN b ELSE s[i]]

\* template.format(arg) for templates whose only field is {0}
RECURSIVE str_format(_, _)
str_format(template, arg) ==
    IF template = << >> THEN << >>
    ELSE IF Len(template) >= 3 /\ SubSeq(template, 1, 3) = << "{", "0", "}" >>
         THEN arg \o str_format(SubSeq(template, 4, Len(template)), arg)
         ELSE << template[1] >> \o str_format(Tail(template), arg)

\* re.search(pattern, text) is not None, for patterns without regular
\* expression metacharacters (letters, digits, '-', '_'): the pattern occurs
\* somewhere in the text
re_search(pattern, text) ==
    \E i \in 0..(Len(text) - Len(pattern)) :
        SubSeq(text, i + 1, i + Len(pattern)) = pattern

\* ------------------------------------------------------------------ state
VARIABLES
    config,           \* the configuration dict (yaml)
    force,            \* argument of create
    dry,              \* argument of create
    no_validate,      \* argument of create
    venv_isdir,       \* os.path.isdir(venv)
    destination_tar,  \* what is at the archive path: "absent", "file", "other"
    installed,        \* project names in the environment (pip freeze)
    modules,          \* the modules dict of create
    pc,               \* the statement of create that runs next
    idx,              \* position in the for loop of that statement
    calls,            \* the external commands run so far, in order
    failed,           \* the failed list of _validate
    archived,         \* the installed set that utils.tar packed
    report,           \* the installed set printed by the last log line
    exit              \* how the run ended

vars == << config, force, dry, no_validate, venv_isdir, destination_tar,
           installed, modules, pc, idx, calls, failed, archived, report, exit >>

\* -------------------------------------------------------------- outcomes
Running == [code |-> -1, key |-> "running"]
\* sys.exit(n) with a literal n
SysExit(n) == [code |-> n, key |-> "sys.exit"]
\* sys.exit(codes.errors[k]): the numbers are set in the codes module
CodesExit(k) == [code |-> -1, key |-> k]
\* create returned
Returned == [code |-> 0, key |-> "return"]

Call(op, site, arg) == [op |-> op, site |-> site, arg |-> arg]

\* ---------------------------------------------------------------- inputs
CoreKeysInput ==
    { cloudify_plugins_common, cloudify_diamond_plugin,
      cloudify_agent_installer_plugin }
\* a key of core_modules is left empty, set to 'exclude' or to a location
CoreValuesInput(key) == { None, exclude, LocationOf(key) }
CoreModulesInput ==
    UNION { { cm \in [K -> { None, exclude } \cup { LocationOf(k) : k \in K }] :
                \A k \in K : cm[k] \in CoreValuesInput(k) } :
            K \in { K \in SUBSET CoreKeysInput : Cardinality(K) <= MaxCoreKeys } }
\* lists of up to MaxAdditional modules, none named twice
AdditionalInput ==
    { am \in UNION { [1..n -> { PyYAML, pyyaml }] : n \in 0..MaxAdditional } :
        \A i, j \in 1..Len(am) : i # j => am[i] # am[j] }
AgentInput ==
    { EmptyDict,
      [cloudify_agent_version |-> AgentVersion],
      [cloudify_agent_module |-> AgentLocation],
      [cloudify_agent_module |-> None],
      [cloudify_agent_module |-> AgentLocation,
       cloudify_agent_version |-> AgentVersion] }
KeepVenvInput == { EmptyDict, [keep_venv |-> TRUE] }

\* a key is present in the yaml only when it says something
ConfigOf(cm, am, ag, kv) ==
    (IF DOMAIN cm = {} THEN EmptyDict ELSE [core_modules |-> cm])
    @@ (IF am = << >> THEN EmptyDict ELSE [additional_modules |-> am])
    @@ ag @@ kv

ConfigInput ==
    { ConfigOf(cm, am, ag, kv) :
        cm \in CoreModulesInput, am \in AdditionalInput,
        ag \in AgentInput, kv \in KeepVenvInput }

\* what an environment left by an earlier run may hold
OldEnvInput == { {}, { cloudify_agent } }

\* the options of a run are varied for the configurations with few modules,
\* the modules of a configuration for the runs with the default options on
\* a clean file system
SmallModules(cfg) ==
    /\ Cardinality(DOMAIN DictGetDefault(cfg, "core_modules", EmptyDict)) <= 1
    /\ "additional_modules" \notin DOMAIN cfg

Init ==
    /\ config \in ConfigInput
    /\ \/ /\ SmallModules(config)
          /\ force \in BOOLEAN
          /\ dry \in BOOLEAN
          /\ no_validate \in BOOLEAN
          /\ venv_isdir \in BOOLEAN
          /\ destination_tar \in { "absent", "file", "other" }
          /\ installed \in (IF venv_isdir THEN OldEnvInput ELSE { {} })
       \/ /\ ~SmallModules(config)
          /\ "keep_venv" \notin DOMAIN config
          /\ force = FALSE
          /\ dry = FALSE
          /\ no_validate = FALSE
          /\ venv_isdir = FALSE
          /\ destination_tar = "absent"
          /\ installed = {}
    /\ modules = [core |-> EmptyDict, additional |-> << >>, agent |-> << >>]
    /\ pc = "check_venv"
    /\ idx = 1
    /\ calls = << >>
    /\ failed = << >>
    /\ archived = {}
    /\ report = {}
    /\ exit = Running

\* ------------------------------------------------------------ the run
Exit(e) == /\ pc' = "done"
           /\ exit' = e

\* create, lines 194-203: the virtualenv directory
VenvAbsent ==
    /\ pc = "check_venv"
    /\ ~venv_isdir
    /\ pc' = "make_virtualenv"
    /\ UNCHANGED << config, force, dry, no_validate, venv_isdir,
                    destination_tar, installed, modules, idx, calls, failed,
                    archived, report, exit >>

VenvRemove ==
    /\ pc = "check_venv"
    /\ venv_isdir
    /\ force
    /\ venv_isdir' = FALSE
    /\ installed' = {}
    /\ pc' = "make_virtualenv"
    /\ UNCHANGED << config, force, dry, no_validate, destination_tar, modules,
                    idx, calls, failed, archived, report, exit >>

VenvConflict ==
    /\ pc = "check_venv"
    /\ venv_isdir
    /\ ~force
    /\ Exit(SysExit(2))
    /\ UNCHANGED << config, force, dry, no_validate, venv_isdir,
                    destination_tar, installed, modules, idx, calls, failed,
                    archived, report >>

\* utils.make_virtualenv, called at line 206
MakeVirtualenvOk ==
    /\ pc = "make_virtualenv"
    /\ venv_isdir' = TRUE
    /\ installed' = {}
    /\ calls' = Append(calls, Call("virtualenv", "make_virtualenv", << >>))
    /\ pc' = "check_output"
    /\ UNCHANGED << config, force, dry, no_validate, destination_tar, modules,
                    idx, failed, archived, report, exit >>

MakeVirtualenvFail ==
    /\ pc = "make_virtualenv"
    /\ venv_isdir' \in BOOLEAN
    /\ calls' = Append(calls, Call("virtualenv", "make_virtualenv", << >>))
    /\ Exit(CodesExit("could_not_create_virtualenv"))
    /\ UNCHANGED << config, force, dry, no_validate, destination_tar,
                    installed, modules, idx, failed, archived, report >>

\* create, lines 208-215: the output file
OutputAbsent ==
    /\ pc = "check_output"
    /\ destination_tar = "absent"
    /\ pc' = "merge_modules"
    /\ UNCHANGED << config, force, dry, no_validate, venv_isdir,
                    destination_tar, installed, modules, idx, calls, failed,
                    archived, report, exit >>

OutputRemove_any_kind ==
    /\ pc = "check_output"
    /\ destination_tar # "absent"
    /\ force
    /\ destination_tar' = "absent"
    /\ pc' = "merge_modules"
    /\ UNCHANGED << config, force, dry, no_validate, venv_isdir, installed,
                    modules, idx, calls, failed, archived, report, exit >>

OutputRemove ==
    /\ pc = "check_output"
    /\ destination_tar = "file"
    /\ force
    /\ destination_tar' = "absent"
    /\ pc' = "merge_modules"
    /\ UNCHANGED << config, force, dry, no_validate, venv_isdir, installed,
                    modules, idx, calls, failed, archived, report, exit >>

OutputConflict_exit_2 ==
    /\ pc = "check_output"
    /\ \/ destination_tar = "file" /\ ~force
       \/ destination_tar = "other"
    /\ Exit(SysExit(2))
    /\ UNCHANGED << config, force, dry, no_validate, venv_isdir,
                    destination_tar, installed, modules, idx, calls, failed,
                    archived, report >>

OutputConflict ==
    /\ pc = "check_output"
    /\ \/ destination_tar = "file" /\ ~force
       \/ destination_tar = "other"
    /\ Exit(SysExit(9))
    /\ UNCHANGED << config, force, dry, no_validate, venv_isdir,
                    destination_tar, installed, modules, idx, calls, failed,
                    archived, report >>

AgentOf_version_first(cfg) ==
    IF "cloudify_agent_version" \in DOMAIN cfg
    THEN str_format(DEFAULT_CLOUDIFY_AGENT_URL, cfg.cloudify_agent_version)
    ELSE cfg.cloudify_agent_module

\* the agent that _merge_modules sets, lines 86-90
AgentOf(cfg) ==
    IF "cloudify_agent_module" \in DOMAIN cfg
    THEN cfg.cloudify_agent_module
    ELSE str_format(DEFAULT_CLOUDIFY_AGENT_URL, cfg.cloudify_agent_version)

HasAgent(cfg) ==
    \/ "cloudify_agent_module" \in DOMAIN cfg
    \/ "cloudify_agent_version" \in DOMAIN cfg

MergedCore_catalog_defaults(mods, cfg) ==
    DictUpdate([k \in { MODULES_LIST[i] : i \in 1..Len(MODULES_LIST) } |-> None],
               DictGetDefault(cfg, "core_modules", EmptyDict))

\* the core mapping after line 85
MergedCore(mods, cfg) ==
    DictUpdate(mods.core, DictGetDefault(cfg, "core_modules", EmptyDict))

_merge_modules_prepend(mods, cfg) ==
    LET am == DictGetDefault(cfg, "additional_modules", << >>)
    IN  [core |-> MergedCore(mods, cfg),
         additional |-> [i \in 1..Len(am) |-> am[Len(am) + 1 - i]]
                        \o mods.additional,
         agent |-> AgentOf(cfg)]

\* _merge_modules when it returns
_merge_modules(mods, cfg) ==
    [core |-> MergedCore(mods, cfg),
     additional |-> mods.additional
                    \o DictGetDefault(cfg, "additional_modules", << >>),
     agent |-> AgentOf(cfg)]

\* the modules dict that create builds at lines 219-222
DefaultModules == [core |-> EmptyDict, additional |-> << >>, agent |-> << >>]

MergeModulesOk ==
    /\ pc = "merge_modules"
    /\ HasAgent(config)
    /\ modules' = _merge_modules(DefaultModules, config)
    /\ pc' = "dry"
    /\ UNCHANGED << config, force, dry, no_validate, venv_isdir,
                    destination_tar, installed, idx, calls, failed, archived,
                    report, exit >>

MergeModulesMissingAgent_no_exit ==
    /\ pc = "merge_modules"
    /\ ~HasAgent(config)
    /\ modules' = [DefaultModules EXCEPT
                     !.core = MergedCore(DefaultModules, config)]
    /\ pc' = "dry"
    /\ UNCHANGED << config, force, dry, no_validate, venv_isdir,
                    destination_tar, installed, idx, calls, failed, archived,
                    report, exit >>

MergeModulesMissingAgent ==
    /\ pc = "merge_modules"
    /\ ~HasAgent(config)
    /\ modules' = [DefaultModules EXCEPT
                     !.core = MergedCore(DefaultModules, config)]
    /\ Exit(SysExit(3))
    /\ UNCHANGED << config, force, dry, no_validate, venv_isdir,
                    destination_tar, installed, idx, calls, failed, archived,
                    report >>

\* where a for loop of create continues: the loop's next iteration, or the
\* statement after the loop
GotoUninstall_always_validates(i) ==
    IF i <= Len(MODULES_LIST) THEN << "uninstall_excluded", i >>
    ELSE << "validate", 1 >>

GotoUninstall(i) ==
    IF i <= Len(MODULES_LIST) THEN << "uninstall_excluded", i >>
    ELSE IF no_validate THEN << "tar", 1 >> ELSE << "validate", 1 >>

GotoAdditional(i, mods) ==
    IF i <= Len(mods.additional) THEN << "install_additional", i >>
    ELSE << "install_agent", 1 >>

GotoCore(i, mods) ==
    IF i <= Len(MODULES_LIST) THEN << "install_core", i >>
    ELSE GotoAdditional(1, mods)

GotoExternal(i, mods) ==
    IF i <= Len(EXTERNAL_MODULES) THEN << "install_external", i >>
    ELSE GotoCore(1, mods)

Goto(target) ==
    /\ pc' = target[1]
    /\ idx' = target[2]

\* create, lines 225-232
DryRunExit ==
    /\ pc = "dry"
    /\ dry
    /\ Exit(SysExit(0))
    /\ UNCHANGED << config, force, dry, no_validate, venv_isdir,
                    destination_tar, installed, modules, idx, calls, failed,
                    archived, report >>

DryRunSkip ==
    /\ pc = "dry"
    /\ ~dry
    /\ Goto(GotoExternal(1, modules))
    /\ UNCHANGED << config, force, dry, no_validate, venv_isdir,
                    destination_tar, installed, modules, calls, failed,
                    archived, report, exit >>

\* utils.install_module when pip returns 0: pip has added the projects it
\* resolved for the module (the module and its dependencies) that were not
\* installed yet.  The --pre flag that line 50 adds for the module 'pre'
\* changes the pip command only, no module of the inputs has that name.
install_module_ok(site, module) ==
    /\ \E added \in SUBSET (PackageIndex \ installed) :
          installed' = installed \cup added
    /\ calls' = Append(calls, Call("install", site, module))

install_module_fail_rollback(site, module) ==
    /\ installed' = {}
    /\ calls' = Append(calls, Call("install", site, module))
    /\ Exit(CodesExit("could_not_install_module"))

\* utils.install_module when pip fails: sys.exit; pip installs after it has
\* collected and built everything, a failed pip leaves the environment as
\* it was
install_module_fail(site, module) ==
    /\ installed' = installed
    /\ calls' = Append(calls, Call("install", site, module))
    /\ Exit(CodesExit("could_not_install_module"))

\* module.replace('_', '-')
get_module_name(module) == str_replace(module, "_", "-")

\* utils.check_installed: the module name is searched in the lower-cased
\* output of pip freeze (one line per project)
check_installed(module, inst) ==
    \E line \in inst : re_search(module, str_lower(line))

\* create, lines 234-237
InstallExternalOk ==
    /\ pc = "install_external"
    /\ install_module_ok("external", EXTERNAL_MODULES[idx])
    /\ Goto(GotoExternal(idx + 1, modules))
    /\ UNCHANGED << config, force, dry, no_validate, venv_isdir,
                    destination_tar, modules, failed, archived, report, exit >>

InstallExternalFail ==
    /\ pc = "install_external"
    /\ install_module_fail("external", EXTERNAL_MODULES[idx])
    /\ UNCHANGED << config, force, dry, no_validate, venv_isdir,
                    destination_tar, modules, idx, failed, archived, report >>

\* create, lines 239-253, one iteration
CoreExcluded_installs ==
    /\ pc = "install_core"
    /\ Truthy(DictGet(modules.core, MODULES_LIST[idx]))
    /\ modules.core[MODULES_LIST[idx]] = exclude
    /\ install_module_ok("core", modules.core[MODULES_LIST[idx]])
    /\ Goto(GotoCore(idx + 1, modules))
    /\ UNCHANGED << config, force, dry, no_validate, venv_isdir,
                    destination_tar, modules, failed, archived, report, exit >>

CoreExcluded ==
    /\ pc = "install_core"
    /\ Truthy(DictGet(modules.core, MODULES_LIST[idx]))
    /\ modules.core[MODULES_LIST[idx]] = exclude
    /\ Goto(GotoCore(idx + 1, modules))
    /\ UNCHANGED << config, force, dry, no_validate, venv_isdir,
                    destination_tar, installed, modules, calls, failed,
                    archived, report, exit >>

CoreInstallOk ==
    /\ pc = "install_core"
    /\ Truthy(DictGet(modules.core, MODULES_LIST[idx]))
    /\ modules.core[MODULES_LIST[idx]] # exclude
    /\ install_module_ok("core", modules.core[MODULES_LIST[idx]])
    /\ Goto(GotoCore(idx + 1, modules))
    /\ UNCHANGED << config, force, dry, no_validate, venv_isdir,
                    destination_tar, modules, failed, archived, report, exit >>

CoreInstallFail ==
    /\ pc = "install_core"
    /\ Truthy(DictGet(modules.core, MODULES_LIST[idx]))
    /\ modules.core[MODULES_LIST[idx]] # exclude
    /\ install_module_fail("core", modules.core[MODULES_LIST[idx]])
    /\ UNCHANGED << config, force, dry, no_validate, venv_isdir,
                    destination_tar, modules, idx, failed, archived, report >>

CoreUnspecified ==
    /\ pc = "install_core"
    /\ ~Truthy(DictGet(modules.core, MODULES_LIST[idx]))
    /\ Goto(GotoCore(idx + 1, modules))
    /\ UNCHANGED << config, force, dry, no_validate, venv_isdir,
                    destination_tar, installed, modules, calls, failed,
                    archived, report, exit >>

\* create, lines 255-258, one iteration
InstallAdditionalOk ==
    /\ pc = "install_additional"
    /\ install_module_ok("additional", modules.additional[idx])
    /\ Goto(GotoAdditional(idx + 1, modules))
    /\ UNCHANGED << config, force, dry, no_validate, venv_isdir,
                    destination_tar, modules, failed, archived, report, exit >>

InstallAdditionalFail ==
    /\ pc = "install_additional"
    /\ install_module_fail("additional", modules.additional[idx])
    /\ UNCHANGED << config, force, dry, no_validate, venv_isdir,
                    destination_tar, modules, idx, failed, archived, report >>

\* create, lines 260-264
InstallAgentOk ==
    /\ pc = "install_agent"
    /\ Truthy(modules.agent)
    /\ install_module_ok("agent", modules.agent)
    /\ Goto(GotoUninstall(1))
    /\ UNCHANGED << config, force, dry, no_validate, venv_isdir,
                    destination_tar, modules, failed, archived, report, exit >>

InstallAgentFail ==
    /\ pc = "install_agent"
    /\ Truthy(modules.agent)
    /\ install_module_fail("agent", modules.agent)
    /\ UNCHANGED << config, force, dry, no_validate, venv_isdir,
                    destination_tar, modules, idx, failed, archived, report >>

InstallAgentSkip ==
    /\ pc = "install_agent"
    /\ ~Truthy(modules.agent)
    /\ Goto(GotoUninstall(1))
    /\ UNCHANGED << config, force, dry, no_validate, venv_isdir,
                    destination_tar, installed, modules, calls, failed,
                    archived, report, exit >>

\* the name pip compares a requirement and an installed project under
PipCanonical(name) == str_replace(str_lower(name), "_", "-")

\* the projects that pip uninstall <name> removes
PipMatches(name, inst) ==
    { p \in inst : PipCanonical(p) = PipCanonical(name) }

\* create, lines 266-273, one iteration
NotExcluded ==
    /\ pc = "uninstall_excluded"
    /\ DictGet(modules.core, MODULES_LIST[idx]) # exclude
    /\ Goto(GotoUninstall(idx + 1))
    /\ UNCHANGED << config, force, dry, no_validate, venv_isdir,
                    destination_tar, installed, modules, calls, failed,
                    archived, report, exit >>

ExcludedNotInstalled ==
    /\ pc = "uninstall_excluded"
    /\ DictGet(modules.core, MODULES_LIST[idx]) = exclude
    /\ ~check_installed(get_module_name(MODULES_LIST[idx]), installed)
    /\ calls' = Append(calls, Call("freeze", "exclude",
                                   get_module_name(MODULES_LIST[idx])))
    /\ Goto(GotoUninstall(idx + 1))
    /\ UNCHANGED << config, force, dry, no_validate, venv_isdir,
                    destination_tar, installed, modules, failed, archived,
                    report, exit >>

\* utils.uninstall_module when pip returns 0
UninstallOk ==
    /\ pc = "uninstall_excluded"
    /\ DictGet(modules.core, MODULES_LIST[idx]) = exclude
    /\ check_installed(get_module_name(MODULES_LIST[idx]), installed)
    /\ PipMatches(get_module_name(MODULES_LIST[idx]), installed) # {}
    /\ installed' = installed
                    \ PipMatches(get_module_name(MODULES_LIST[idx]), installed)
    /\ calls' = calls
                \o << Call("freeze", "exclude",
                           get_module_name(MODULES_LIST[idx])),
                      Call("uninstall", "exclude",
                           get_module_name(MODULES_LIST[idx])) >>
    /\ Goto(GotoUninstall(idx + 1))
    /\ UNCHANGED << config, force, dry, no_validate, venv_isdir,
                    destination_tar, modules, failed, archived, report, exit >>

\* utils.uninstall_module when pip fails (the project is not installed, or
\* pip could not remove it)
UninstallFail ==
    /\ pc = "uninstall_excluded"
    /\ DictGet(modules.core, MODULES_LIST[idx]) = exclude
    /\ check_installed(get_module_name(MODULES_LIST[idx]), installed)
    /\ calls' = calls
                \o << Call("freeze", "exclude",
                           get_module_name(MODULES_LIST[idx])),
                      Call("uninstall", "exclude",
                           get_module_name(MODULES_LIST[idx])) >>
    /\ Exit(CodesExit("could_not_uninstall_module"))
    /\ UNCHANGED << config, force, dry, no_validate, venv_isdir,
                    destination_tar, installed, modules, idx, failed, archived,
                    report >>

\* the orders in which a dict can be iterated
Orderings(S) ==
    { s \in [1..Cardinality(S) -> S] :
        \A i, j \in 1..Cardinality(S) : i # j => s[i] # s[j] }

ValidateChecks_every_slot(mods, order) ==
    SelectSeq(MODULES_LIST, LAMBDA k : DictGet(mods.core, k) # exclude)
    \o mods.additional \o << cloudify_agent >>

\* the modules that _validate passes to check, lines 119-125, when the core
\* dict is iterated in the given order
ValidateChecks(mods, order) ==
    LET checkedCore == SelectSeq(order,
                           LAMBDA k : Truthy(mods.core[k])
                                      /\ mods.core[k] # exclude)
    IN  checkedCore \o mods.additional \o << cloudify_agent >>

\* the failed list of _validate after the checks
ValidateFailed(checks, inst) ==
    LET names == [i \in 1..Len(checks) |-> get_module_name(checks[i])]
    IN  SelectSeq(names, LAMBDA n : ~check_installed(n, inst))

ValidateCalls(checks) ==
    [i \in 1..Len(checks) |->
        Call("freeze", "validate", get_module_name(checks[i]))]

\* _validate, lines 100-130
ValidateOk ==
    /\ pc = "validate"
    /\ \E order \in Orderings(DOMAIN modules.core) :
          /\ ValidateFailed(ValidateChecks(modules, order), installed) = << >>
          /\ failed' = << >>
          /\ calls' = calls \o ValidateCalls(ValidateChecks(modules, order))
    /\ pc' = "tar"
    /\ UNCHANGED << config, force, dry, no_validate, venv_isdir,
                    destination_tar, installed, modules, idx, archived,
                    report, exit >>

ValidateFail_consumes ==
    /\ pc = "validate"
    /\ \E order \in Orderings(DOMAIN modules.core) :
          /\ ValidateFailed(ValidateChecks(modules, order), installed) # << >>
          /\ failed' = ValidateFailed(ValidateChecks(modules, order), installed)
          /\ calls' = calls \o ValidateCalls(ValidateChecks(modules, order))
    /\ modules' = [modules EXCEPT !.additional = << >>]
    /\ Exit(SysExit(10))
    /\ UNCHANGED << config, force, dry, no_validate, venv_isdir,
                    destination_tar, installed, idx, archived, report >>

ValidateFail ==
    /\ pc = "validate"
    /\ \E order \in Orderings(DOMAIN modules.core) :
          /\ ValidateFailed(ValidateChecks(modules, order), installed) # << >>
          /\ failed' = ValidateFailed(ValidateChecks(modules, order), installed)
          /\ calls' = calls \o ValidateCalls(ValidateChecks(modules, order))
    /\ Exit(SysExit(10))
    /\ UNCHANGED << config, force, dry, no_validate, venv_isdir,
                    destination_tar, installed, modules, idx, archived,
                    report >>

TarOk_always_removes ==
    /\ pc = "tar"
    /\ destination_tar' = "file"
    /\ archived' = installed
    /\ calls' = Append(calls, Call("tar", "tar", << >>))
    /\ pc' = "remove_venv"
    /\ UNCHANGED << config, force, dry, no_validate, venv_isdir, installed,
                    modules, idx, failed, report, exit >>

\* utils.tar, called at line 281
TarOk ==
    /\ pc = "tar"
    /\ destination_tar' = "file"
    /\ archived' = installed
    /\ calls' = Append(calls, Call("tar", "tar", << >>))
    /\ pc' = IF DictGetDefault(config, "keep_venv", FALSE)
             THEN "report" ELSE "remove_venv"
    /\ UNCHANGED << config, force, dry, no_validate, venv_isdir, installed,
                    modules, idx, failed, report, exit >>

TarFail ==
    /\ pc = "tar"
    /\ destination_tar' \in { "absent", "file" }
    /\ calls' = Append(calls, Call("tar", "tar", << >>))
    /\ Exit(CodesExit("failed_to_create_tar"))
    /\ UNCHANGED << config, force, dry, no_validate, venv_isdir, installed,
                    modules, idx, failed, archived, report >>

\* create, lines 283-285
RemoveVenv ==
    /\ pc = "remove_venv"
    /\ venv_isdir' = FALSE
    /\ installed' = {}
    /\ calls' = Append(calls, Call("rmtree", "remove_venv", << >>))
    /\ pc' = "report"
    /\ UNCHANGED << config, force, dry, no_validate, destination_tar, modules,
                    idx, failed, archived, report, exit >>

\* utils.get_installed: the output of pip freeze in the environment
get_installed == installed

\* create, lines 287-289
Report ==
    /\ pc = "report"
    /\ report' = get_installed
    /\ calls' = Append(calls, Call("freeze", "report", << >>))
    /\ Exit(Returned)
    /\ UNCHANGED << config, force, dry, no_validate, venv_isdir,
                    destination_tar, installed, modules, idx, failed,
                    archived >>

Next ==
    \/ VenvAbsent \/ VenvRemove \/ VenvConflict
    \/ MakeVirtualenvOk \/ MakeVirtualenvFail
    \/ OutputAbsent \/ OutputRemove \/ OutputConflict
    \/ MergeModulesOk \/ MergeModulesMissingAgent
    \/ DryRunExit \/ DryRunSkip
    \/ InstallExternalOk \/ InstallExternalFail
    \/ CoreExcluded \/ CoreInstallOk \/ CoreInstallFail \/ CoreUnspecified
    \/ InstallAdditionalOk \/ InstallAdditionalFail
    \/ InstallAgentOk \/ InstallAgentFail \/ InstallAgentSkip
    \/ NotExcluded \/ ExcludedNotInstalled \/ UninstallOk \/ UninstallFail
    \/ ValidateOk \/ ValidateFail
    \/ TarOk \/ TarFail
    \/ RemoveVenv
    \/ Report

Spec == Init /\ [][Next]_vars

\* ------------------------------------------------------------ properties
Range(seq) == { seq[i] : i \in 1..Len(seq) }

\* the statements of create before the modules are merged
PreMergePcs == { "check_venv", "make_virtualenv", "check_output", "merge_modules" }

\* the exits of a run whose modules were not merged
UnresolvedExits ==
    { SysExit(2), SysExit(9), SysExit(3),
      CodesExit("could_not_create_virtualenv") }

\* _merge_modules has returned the modules of this run
PlanResolved ==
    /\ pc \notin PreMergePcs
    /\ pc = "done" => exit \notin UnresolvedExits

\* the core_modules of the configuration
ConfigCore == DictGetDefault(config, "core_modules", EmptyDict)

\* the additional_modules of the configuration
ConfigAdditional == DictGetDefault(config, "additional_modules", << >>)

\* the catalog, in the order the specification gives it
CatalogOrder ==
    << cloudify_rest_client, cloudify_plugins_common,
       cloudify_script_plugin, cloudify_diamond_plugin >>
Catalog == Range(CatalogOrder)

\* the position of the catalog slot that a location was configured for
SlotOfLocation(loc) ==
    CHOOSE i \in 1..Len(CatalogOrder) : LocationOf(CatalogOrder[i]) = loc

CallsAt(site) == { i \in 1..Len(calls) : calls[i].site = site }
CallsOf(op) == { i \in 1..Len(calls) : calls[i].op = op }

\* no module was installed, removed, validated or archived
NoModuleCalls ==
    \A i \in 1..Len(calls) :
        /\ calls[i].op \notin { "install", "uninstall", "tar" }
        /\ calls[i].site # "validate"

\* C1: a configuration with neither cloudify_agent_module nor
\* cloudify_agent_version makes the merge of the modules end the run with
\* sys.exit(3), and such a run never installs, uninstalls, validates or
\* archives anything.
C1_MissingAgentIsFatal ==
    /\ [](~HasAgent(config) => NoModuleCalls /\ exit # Returned)
    /\ [][(pc = "merge_modules" /\ ~HasAgent(config))
            => (pc' = "done" /\ exit' = SysExit(3))]_vars

C1_Witness ==
    /\ ~HasAgent(config)
    /\ pc = "done"
    /\ exit = SysExit(3)
    /\ CallsOf("virtualenv") # {}

UrlPrefix ==
    <<"h","t","t","p","s",":","/","/","g","i","t","h","u","b",".","c","o","m","/","n","i","r","0","s","/","c","l","o","u","d","i","f","y","-","a","g","e","n","t","/","a","r","c","h","i","v","e","/">>
UrlSuffix ==
    <<".","t","a","r",".","g","z">>
ExpectedAgent(cfg) ==
    IF "cloudify_agent_module" \in DOMAIN cfg THEN cfg.cloudify_agent_module
    ELSE UrlPrefix \o cfg.cloudify_agent_version \o UrlSuffix

\* C3: the agent of the merged modules is cloudify_agent_module as given
\* when the configuration has it (also when it has cloudify_agent_version
\* too), otherwise the url template with cloudify_agent_version filled in;
\* without either the run ends at the merge.
C3_AgentPrecedence ==
    /\ PlanResolved => HasAgent(config) /\ modules.agent = ExpectedAgent(config)
    /\ ~HasAgent(config) => pc \in PreMergePcs \cup { "done" }

C3_Witness ==
    /\ PlanResolved
    /\ "cloudify_agent_module" \in DOMAIN config
    /\ "cloudify_agent_version" \in DOMAIN config
    /\ modules.agent = AgentLocation

\* C4: every install of an external module comes before every install of a
\* core module, and the core modules are installed in catalog order.
C4_ExternalThenCatalogOrder ==
    /\ \A i \in CallsAt("external"), j \in CallsAt("core") : i < j
    /\ \A i, j \in CallsAt("core") :
           i < j => SlotOfLocation(calls[i].arg) < SlotOfLocation(calls[j].arg)

C4_Witness ==
    /\ CallsAt("external") # {}
    /\ \E i, j \in CallsAt("core") :
           /\ calls[i].arg = LocationOf(cloudify_plugins_common)
           /\ calls[j].arg = LocationOf(cloudify_diamond_plugin)

\* the name under which the specification compares a declared module and an
\* installed project: lower case, '_' read as '-'
NameKey(name) == str_replace(str_lower(name), "_", "-")

\* the listing shows the declared module: some installed project has its name
ListedPresent(name, inst) == \E p \in inst : NameKey(p) = NameKey(name)

\* the core module that the current iteration of a loop over the catalog is at
CurrentSlot == MODULES_LIST[idx]

\* the step appends a pip uninstall of the given module to the calls
UninstallCalledFor(name) ==
    \E i \in (Len(calls) + 1)..Len(calls') :
        calls'[i].op = "uninstall" /\ calls'[i].arg = name

\* C5: a core module set to 'exclude' is never installed by the loop over
\* the catalog, and the exclusion loop, which runs after the install of the
\* agent, uninstalls it exactly when the listing of the environment shows
\* it present.
C5_ExcludedSkippedAndRemovedIffPresent ==
    /\ [](\A i \in CallsAt("core") :
             /\ calls[i].arg # exclude
             /\ \E slot \in Catalog :
                   /\ DictGet(modules.core, slot) = calls[i].arg
                   /\ calls[i].arg = LocationOf(slot))
    /\ [][(pc = "uninstall_excluded"
           /\ DictGet(modules.core, CurrentSlot) = exclude)
            => (UninstallCalledFor(get_module_name(CurrentSlot))
                  <=> ListedPresent(CurrentSlot, installed))]_vars

\* the installs of the additional modules, in the order they were made
AdditionalCalls == SelectSeq(calls, LAMBDA c : c.site = "additional")

C7_AgentBeforeAdditional ==
    /\ \A i \in CallsAt("core"), j \in CallsAt("agent") : i < j
    /\ \A i \in CallsAt("agent"), j \in CallsAt("additional") : i < j

\* _validate has just run: the environment is as _validate saw it
JustValidated ==
    \/ pc = "tar" /\ ~no_validate
    \/ pc = "done" /\ exit = SysExit(10)

\* the names that _validate looked up in the listing
ValidatedNames == { calls[i].arg : i \in CallsAt("validate") }

\* the modules that the specification has validated
PlannedNames ==
    { slot \in Catalog : /\ Truthy(DictGet(modules.core, slot))
                         /\ modules.core[slot] # exclude }
    \cup Range(modules.additional)
    \cup { cloudify_agent }

Keys(names) == { NameKey(n) : n \in names }

\* C8: _validate looks up exactly the catalog slots that have a location,
\* the additional modules and cloudify-agent; the names it reports are
\* exactly those of them that the listing does not show, and it ends the
\* run with sys.exit(10) exactly when there is one.
C8_ValidateReportsPlannedAbsentees ==
    JustValidated =>
        /\ Keys(ValidatedNames) = Keys(PlannedNames)
        /\ Keys(Range(failed))
             = Keys({ n \in PlannedNames : ~ListedPresent(n, installed) })
        /\ exit = SysExit(10)
             <=> \E n \in PlannedNames : ~ListedPresent(n, installed)

\* C9: a module that _validate looks up is reported missing exactly when no
\* installed project has its name, names compared in lower case with '_'
\* read as '-'.
C9_NamesComparedByKey ==
    JustValidated =>
        \A n \in ValidatedNames :
            n \in Range(failed) <=> ~ListedPresent(n, installed)

\* the configuration excludes a mandatory module
MandatoryExcluded ==
    \E i \in 1..Len(MANDATORY_MODULES) :
        DictGet(ConfigCore, MANDATORY_MODULES[i]) = exclude

\* C10: a configuration that excludes a mandatory module passes the merge
\* of the modules, and the validation then fails the run: with validation
\* on, such a run never gets to the archive.
C10_MandatoryExclusionFailsValidation ==
    /\ (MandatoryExcluded /\ HasAgent(config) /\ pc = "done")
           => exit # SysExit(3)
    /\ (MandatoryExcluded /\ ~no_validate)
           => /\ pc \notin { "tar", "remove_venv", "report" }
              /\ exit # Returned

\* the calls of the install loops, the exclusion loop and _validate
ModuleCalls ==
    SelectSeq(calls, LAMBDA c : c.site \in { "external", "core", "additional",
                                              "agent", "exclude", "validate" })

IsPrefix(s, t) == Len(s) <= Len(t) /\ SubSeq(t, 1, Len(s)) = s

\* the configuration of the end-to-end scenario: diamond excluded, agent
\* version 1.0, nothing else about modules
IsScenarioConfig ==
    /\ DOMAIN ConfigCore = { cloudify_diamond_plugin }
    /\ ConfigCore[cloudify_diamond_plugin] = exclude
    /\ ConfigAdditional = << >>
    /\ "cloudify_agent_module" \notin DOMAIN config
    /\ "cloudify_agent_version" \in DOMAIN config
    /\ config.cloudify_agent_version = << "1", ".", "0" >>

ScenarioInstalls ==
    << Call("install", "external", EXTERNAL_MODULES[1]),
       Call("install", "agent",
            UrlPrefix \o << "1", ".", "0" >> \o UrlSuffix) >>

ScenarioExclusion(uninstalls) ==
    << Call("freeze", "exclude", cloudify_diamond_plugin_dist) >>
    \o (IF uninstalls
        THEN << Call("uninstall", "exclude", cloudify_diamond_plugin_dist) >>
        ELSE << >>)

ScenarioValidation ==
    IF no_validate THEN << >>
    ELSE << Call("freeze", "validate", cloudify_agent) >>

ScenarioCalls(uninstalls) ==
    ScenarioInstalls \o ScenarioExclusion(uninstalls) \o ScenarioValidation

\* C11 as claimed: in the scenario the three core modules that are not
\* configured are installed (diamond is not) before the agent, and the
\* validation looks up rest-client, plugins-common, script-plugin and
\* cloudify-agent.
C11_ScenarioInstallsUnconfiguredCore ==
    IsScenarioConfig =>
        /\ CallsAt("agent") # {} => Cardinality(CallsAt("core")) = 3
        /\ JustValidated =>
             ValidatedNames = { get_module_name(cloudify_rest_client),
                                get_module_name(cloudify_plugins_common),
                                get_module_name(cloudify_script_plugin),
                                cloudify_agent }

\* C11 as amended: in the scenario the run installs the external module,
\* installs no core module (the three that are not configured are left to
\* the agent's dependencies, diamond is excluded), installs the agent from
\* the url of version 1.0, then looks diamond up in the listing and
\* uninstalls it if the lookup finds it (always when it is installed), and
\* the validation looks up cloudify-agent only.
C11_ScenarioSkipsUnconfiguredCore ==
    /\ [](IsScenarioConfig =>
            /\ \E u \in BOOLEAN : IsPrefix(ModuleCalls, ScenarioCalls(u))
            /\ pc = "tar" => \E u \in BOOLEAN : ModuleCalls = ScenarioCalls(u))
    /\ [][(IsScenarioConfig /\ pc = "uninstall_excluded"
           /\ CurrentSlot = cloudify_diamond_plugin
           /\ cloudify_diamond_plugin_dist \in installed)
            => UninstallCalledFor(cloudify_diamond_plugin_dist)]_vars

C11_Witness ==
    /\ IsScenarioConfig
    /\ ~no_validate
    /\ pc = "tar"
    /\ ModuleCalls = ScenarioCalls(TRUE)

\* the exits of utils.install_module and utils.uninstall_module
FailedCallExits ==
    { CodesExit("could_not_install_module"),
      CodesExit("could_not_uninstall_module") }

LastCall == calls[Len(calls)]

\* C12: a failed pip install or uninstall ends the run: the failed call is
\* the last external command of the run (no later install, uninstall,
\* validation, archive or removal of the environment), and the step of the
\* failure leaves in the environment every project that was installed.
C12_FailedCallEndsRunWithoutRollback ==
    /\ [](exit \in FailedCallExits =>
            /\ pc = "done"
            /\ calls # << >>
            /\ exit = CodesExit("could_not_install_module")
                 => LastCall.op = "install"
            /\ exit = CodesExit("could_not_uninstall_module")
                 => LastCall.op = "uninstall"
            /\ \A i \in 1..Len(calls) :
                  /\ calls[i].op \notin { "tar", "rmtree" }
                  /\ calls[i].site \notin { "validate", "report" }
            /\ venv_isdir)
    /\ [][exit' \in FailedCallExits =>
            /\ installed \subseteq installed'
            /\ venv_isdir' = venv_isdir
            /\ destination_tar' = destination_tar]_vars
    /\ [][(exit \in FailedCallExits) => calls' = calls]_vars

C12_Witness ==
    /\ exit = CodesExit("could_not_install_module")
    /\ LastCall.site = "agent"
    /\ cloudify_diamond_plugin_dist \in installed
    /\ Cardinality(CallsOf("install")) >= 3

\* the four fatal conditions of create, at the statement that tests them
EnvironmentExists == pc = "check_venv" /\ venv_isdir /\ ~force
ArchiveExists ==
    /\ pc = "check_output"
    /\ \/ destination_tar = "file" /\ ~force
       \/ destination_tar = "other"
AgentMissing == pc = "merge_modules" /\ ~HasAgent(config)
ValidationFails == pc = "validate" /\ failed' # << >>

\* C13: each of the four fatal conditions ends the run with its own exit
\* code (2, 9, 3, 10): a step ends the run with one of these codes exactly
\* when it is the step of that condition, and a run that returns or ends
\* with exit code 0 has met none of them.
C13_FatalConditionsHaveOwnSignals ==
    [][/\ EnvironmentExists <=> exit' = SysExit(2)
       /\ ArchiveExists <=> exit' = SysExit(9)
       /\ AgentMissing <=> exit' = SysExit(3)
       /\ ValidationFails <=> exit' = SysExit(10)
       /\ exit'.code = 0 =>
            ~(EnvironmentExists \/ ArchiveExists \/ AgentMissing
              \/ ValidationFails)]_vars

C13_Witness ==
    /\ pc = "done"
    /\ exit = SysExit(9)
    /\ destination_tar = "file"
    /\ ~force

\* C14 as claimed: an existing environment without force ends the run
\* before the environment is created and leaves it as it is; with force an
\* existing environment and an existing archive destination of any kind are
\* removed and the run never ends with exit code 2 or 9.
C14_ForceRemovesWhateverExists ==
    /\ [][EnvironmentExists =>
            /\ exit' = SysExit(2)
            /\ calls' = calls
            /\ venv_isdir'
            /\ installed' = installed]_vars
    /\ [](force => exit \notin { SysExit(2), SysExit(9) })
    /\ [][(force /\ pc = "check_venv" /\ venv_isdir) => ~venv_isdir']_vars
    /\ [][(force /\ pc = "check_output" /\ destination_tar # "absent")
            => destination_tar' = "absent"]_vars

\* C14 as amended: an existing environment without force ends the run
\* before the environment is created and leaves it as it is; with force an
\* existing environment is removed and the run never ends with exit code 2,
\* and an existing archive destination is removed when it is a regular file;
\* a destination that exists and is no regular file (a directory) is left
\* in place and ends the run with exit code 9, with force too.
C14_ForceRemovesEnvironmentAndArchiveFile ==
    /\ [][EnvironmentExists =>
            /\ exit' = SysExit(2)
            /\ calls' = calls
            /\ venv_isdir'
            /\ installed' = installed]_vars
    /\ [](force => exit # SysExit(2))
    /\ [][(force /\ pc = "check_venv" /\ venv_isdir) => ~venv_isdir']_vars
    /\ [][(force /\ pc = "check_output" /\ destination_tar = "file")
            => destination_tar' = "absent" /\ exit' = Running]_vars
    /\ [][(pc = "check_output" /\ destination_tar = "other")
            => destination_tar' = "other" /\ exit' = SysExit(9)]_vars
    /\ [](exit = SysExit(9) => ~force \/ destination_tar = "other")

C14_Witness ==
    /\ force
    /\ pc = "done"
    /\ exit = SysExit(9)
    /\ destination_tar = "other"
    /\ CallsOf("virtualenv") # {}

\* the keep_venv that create reads from the configuration
KeepVenv == DictGetDefault(config, "keep_venv", FALSE)

\* the removals of the environment by the cleanup of lines 283-285
CleanupCalls == { i \in CallsOf("rmtree") : calls[i].site = "remove_venv" }

\* C15: the cleanup removes the environment exactly in the runs without
\* keep_venv whose archive was made, and after the archive; a run that ends
\* with a fatal error never gets to the cleanup.
C15_CleanupIffNotKeptAndArchived ==
    /\ \A i \in CleanupCalls :
          /\ \E j \in CallsOf("tar") : j < i
          /\ ~KeepVenv
          /\ destination_tar = "file"
          /\ ~venv_isdir
    /\ exit = Returned =>
          /\ CleanupCalls # {} <=> ~KeepVenv
          /\ venv_isdir <=> KeepVenv
    /\ (pc = "done" /\ exit # Returned) => CleanupCalls = {}

C15_Witness ==
    /\ exit = Returned
    /\ ~KeepVenv
    /\ CleanupCalls # {}
    /\ archived # {}
    /\ ~venv_isdir

\* C16: _validate changes neither the modules nor the environment, and
\* running it again on what it left gives the result it gave: the same
\* missing names and the same outcome, in whatever order the core dict is
\* iterated.
C16_ValidationIsRepeatable ==
    /\ [][pc = "validate" =>
            /\ modules' = modules
            /\ installed' = installed
            /\ venv_isdir' = venv_isdir
            /\ destination_tar' = destination_tar]_vars
    /\ [](JustValidated =>
            \A order \in Orderings(DOMAIN modules.core) :
                LET again == ValidateFailed(ValidateChecks(modules, order),
                                            installed)
                IN  /\ Range(again) = Range(failed)
                    /\ again # << >> <=> exit = SysExit(10))

C16_Witness ==
    /\ pc = "done"
    /\ exit = SysExit(10)
    /\ Len(failed) = 2
    /\ Cardinality(DOMAIN modules.core) = 2

\* the catalog slots that the merged modules give a location
LocatedSlots ==
    { slot \in Catalog : /\ Truthy(DictGet(modules.core, slot))
                         /\ modules.core[slot] # exclude }

\* the loop over the catalog has finished and the run goes on
CatalogPassDone ==
    pc \in { "install_additional", "install_agent", "uninstall_excluded",
             "validate", "tar", "remove_venv", "report" }

\* C17: an iteration of the loop over the catalog calls pip install exactly
\* when the slot has a location, with that location; a slot that is absent,
\* empty or excluded gives no call, and neither does a key of core_modules
\* that is no catalog slot.
C17_CatalogPassInstallsLocatedSlotsOnly ==
    /\ [][pc = "install_core" =>
            LET src == DictGet(modules.core, CatalogOrder[idx])
            IN  IF Truthy(src) /\ src # exclude
                THEN calls' = Append(calls, Call("install", "core", src))
                ELSE calls' = calls]_vars
    /\ [](\A i \in CallsAt("core") :
             /\ calls[i].op = "install"
             /\ \E slot \in LocatedSlots : calls[i].arg = modules.core[slot])
    /\ [](CatalogPassDone =>
             { calls[i].arg : i \in CallsAt("core") }
               = { modules.core[slot] : slot \in LocatedSlots })

C17_Witness ==
    /\ pc = "install_agent"
    /\ Cardinality(CallsAt("core")) = 1
    /\ cloudify_agent_installer_plugin \in DOMAIN modules.core
    /\ modules.core[cloudify_agent_installer_plugin]
         = LocationOf(cloudify_agent_installer_plugin)

\* the calls of the install steps and of the exclusion pass
StepCalls ==
    { i \in 1..Len(calls) :
        calls[i].site \in { "external", "core", "additional", "agent",
                            "exclude" } }

\* C18: tar is called at most once, after every call of the install steps
\* and of the exclusion pass, which have all finished; without no_validate it
\* is called only after a validation that found nothing missing, so a run
\* that ends with sys.exit(10) has no archive and still has its environment.
\* With no_validate the validation is never entered and the run goes from
\* the exclusion pass to tar whatever is installed.
C18_ArchiveOnceAfterStepsAndValidation ==
    /\ [](Cardinality(CallsOf("tar")) <= 1)
    /\ [](\A t \in CallsOf("tar") :
             /\ \A i \in StepCalls \cup CallsAt("validate") : i < t
             /\ Cardinality(CallsAt("external")) = Len(EXTERNAL_MODULES)
             /\ { calls[i].arg : i \in CallsAt("core") }
                  = { modules.core[slot] : slot \in LocatedSlots }
             /\ Cardinality(CallsAt("additional")) = Len(modules.additional)
             /\ Truthy(modules.agent) => CallsAt("agent") # {}
             /\ ~no_validate => failed = << >> /\ CallsAt("validate") # {})
    /\ [](exit = SysExit(10) =>
             /\ ~no_validate
             /\ failed # << >>
             /\ CallsOf("tar") = {}
             /\ CleanupCalls = {}
             /\ venv_isdir
             /\ destination_tar = "absent"
             /\ archived = {})
    /\ [](no_validate =>
             /\ pc # "validate"
             /\ CallsAt("validate") = {}
             /\ exit # SysExit(10))
    /\ [][(pc = "uninstall_excluded" /\ no_validate)
             => pc' \in { "uninstall_excluded", "tar", "done" }]_vars
    /\ [][(pc = "uninstall_excluded" /\ pc' = "done")
             => exit' \in FailedCallExits]_vars

C18_Witness ==
    /\ no_validate
    /\ exit = Returned
    /\ CallsOf("tar") # {}
    /\ Truthy(modules.agent)
    /\ cloudify_agent \notin archived

\* the run ended where the modules are resolved: no agent, or the dry run
EndedAtResolution == pc = "done" /\ exit \in { SysExit(3), SysExit(0) }

\* C19: nothing is changed before the modules are resolved: up to the merge
\* and the dry-run exit no command is run and the environment directory and
\* the archive destination stay as they are, so a run that ends with
\* sys.exit(3) or with the dry-run sys.exit(0) has created no environment
\* and has installed, removed and archived nothing, with and without force.
C19_NothingChangesBeforeResolution ==
    /\ [](EndedAtResolution =>
             /\ CallsOf("virtualenv") = {}
             /\ NoModuleCalls)
    /\ [][(pc \in PreMergePcs \cup { "dry" }) =>
             /\ venv_isdir' = venv_isdir
             /\ destination_tar' = destination_tar
             /\ calls' = calls]_vars

\* C20: the listing in the final log of a run that returns is the set of
\* projects that went into the archive, with and without keep_venv.
C20_ReportEqualsArchivedSet == exit = Returned => report = archived

====
